---- MODULE Spec2Model ----
(***************************************************************************)
(* MultiFingerGripperController of                                         *)
(* omnigibson/controllers/multi_finger_gripper_controller.py as a state    *)
(* machine: construction, the per-tick control step (compute_control with  *)
(* its grasp-state update), reset, and the calls that only read the        *)
(* controller (is_grasping, command_dim, compute_no_op_goal,               *)
(* _preprocess_command).  A second specification, SpecRobot, is            *)
(* LocomotionRobot of omnigibson/robots/locomotion_robot.py: the           *)
(* validation of its controllers and its base_action_idx.                  *)
(*                                                                         *)
(* Numbers are fixed-point integers in units of 0.0005, so 0.001 is 2,     *)
(* 0.002 is 4, 0.01 is 20, 0.33 is 660 and 1.0 is 2000.  np.mean(x) < t is *)
(* written Sum(x) < t * Len(x), which is the same comparison in exact      *)
(* arithmetic; float rounding is not modelled.  Arrays are sequences,      *)
(* Python's None is the empty sequence, and Python's 0-based joint index k *)
(* is k + 1 here.                                                          *)
(***************************************************************************)
EXTENDS Integers, Sequences, FiniteSets, TLC

VARIABLES
    mergeSide,        \* which side of the unresolved merge in compute_control is built
    phase,            \* "unbuilt", "ready" (constructor returned) or "rejected" (it raised)
    error,            \* the exception the constructor raised, or NoError
    mode,             \* self._mode
    motor_type,       \* self._motor_type
    limit_tolerance,  \* self._limit_tolerance
    open_qpos,        \* self._open_qpos (None or an array)
    closed_qpos,      \* self._closed_qpos (None or an array)
    dof_idx,          \* self.dof_idx
    control_limits,   \* self._control_limits
    is_grasping,      \* self._is_grasping
    control,          \* self._control, the last-issued control (None before the first)
    call,             \* the compute_control call of the current tick: its arguments and what it
                      \* returned or raised; NoCall between ticks
    inverted,         \* self._inverted
    command_input_limits,  \* self._command_input_limits, as (min, max)
    query,            \* a call that reads the object and changes nothing, until it returns:
                      \* its name, arguments and result; NoQuery otherwise
    robot             \* a LocomotionRobot: its controllers, its controller_order and how its
                      \* validation ended; NoRobot where only the gripper controller is run

vars == <<mergeSide, phase, error, mode, motor_type, limit_tolerance, open_qpos,
          closed_qpos, dof_idx, control_limits, is_grasping, control, call, inverted,
          command_input_limits, query, robot>>

\* ------------------------------------------------------------------------
\* The values the caller's inputs are drawn from

None == <<>>

MergeSides == {"HEAD", "multiple-envs"}

\* mode strings a caller may pass: the five documented modes, the string the
\* VALID_MODES literal really contains, and one that is neither
ModeArgs == {"binary", "ternary", "smooth", "smooth_delta", "independent",
             "smooth_deltaindependent", "pinch"}

DocumentedModes == {"binary", "ternary", "smooth", "smooth_delta", "independent"}

MotorTypeArgs == {"position", "velocity", "effort", "torque"}

\* command_output_limits argument: the "default" sentinel, None, or the pair (-1.0, 1.0)
OutputLimitArgs == {"default", "none", "pair"}

\* inverted and command_input_limits arguments, as callers combine them: the
\* defaults (not inverted, "default" input limits), and an inverted gripper
\* commanded in (0.0, 1.0)
PipelineArgs == {[inverted |-> FALSE, command_input_limits |-> "default"],
                 [inverted |-> TRUE, command_input_limits |-> <<0, 2000>>]}

\* raw commands given to _preprocess_command; the last has more entries than command_dim
CommandArgs == {<<-2000>>, <<0>>, <<500>>, <<1000>>, <<2000>>, <<500, -500>>}

\* limit_tolerance argument: the default 0.001 and 0.002 (= POS_TOLERANCE)
LimitToleranceArgs == {2, 4}

\* dof_idx argument: one finger (joint 2) or two fingers (joints 2 and 3); joint 1 is not a finger
DofIdxArgs == {<<2>>, <<2, 3>>}

\* open_qpos / closed_qpos arguments: None, or one value per finger
OpenQposArg(n) == [i \in 1..n |-> 80]
ClosedQposArg(n) == [i \in 1..n |-> 10]

\* components of goal targets
TargetVals == {-661, -660, 0, 19, 661}

\* finger telemetry of a one-finger gripper: positions (the limits are 0 and 100)
\* and velocities
PosVals == {-1, 1, 4, 50, 99}
VelVals == {0, -20, 30}

\* finger telemetry of a two-finger gripper
PosPairs == {<<-1, 50>>, <<1, 1>>, <<7, 1>>, <<50, 50>>, <<50, 99>>, <<99, 99>>, <<99, 1>>}
VelPairs == {<<0, 0>>, <<-20, 0>>, <<0, 30>>, <<-20, 30>>}

\* telemetry of joint 1, the joint the gripper controller does not govern,
\* as <<position, velocity, effort>>, and the efforts read on fingers 1 and 2
ArmTelemetry == <<500, 7, 3>>
FingerEffort == <<25, -25>>

\* ------------------------------------------------------------------------
\* Module constants of the controller

VALID_MODES == {"binary", "ternary", "smooth", "smooth_deltaindependent"}

POS_TOLERANCE == 4

VEL_TOLERANCE == 20

\* ControlType.VALID_TYPES_STR
VALID_TYPES_STR == {"position", "velocity", "effort"}

\* ------------------------------------------------------------------------
\* Array helpers (numpy)

RECURSIVE Sum(_)
Sum(s) == IF s = <<>> THEN 0 ELSE Head(s) + Sum(Tail(s))

Abs(x) == IF x < 0 THEN -x ELSE x

AbsVec(s) == [i \in 1..Len(s) |-> Abs(s[i])]

\* a[idx] with an index array
Take(a, idx) == [i \in 1..Len(idx) |-> a[idx[i]]]

\* broadcast shape of two 1-D arrays, 0 when they do not broadcast
BShape(m, n) == IF m = n THEN m ELSE IF m = 1 THEN n ELSE IF n = 1 THEN m ELSE 0

\* element i of a 1-D array broadcast to a longer shape
At(a, i) == IF Len(a) = 1 THEN a[1] ELSE a[i]

\* a - b with broadcasting
Sub(a, b) == [i \in 1..BShape(Len(a), Len(b)) |-> At(a, i) - At(b, i)]

\* ------------------------------------------------------------------------
\* The caller's per-tick inputs

\* control_limits argument for a robot of nj joints: joint 1 is an arm joint,
\* the others are fingers travelling from 0 to 0.05
ControlLimitsArg(nj) ==
    [position |-> << [j \in 1..nj |-> IF j = 1 THEN -1000 ELSE 0],
                     [j \in 1..nj |-> IF j = 1 THEN 1000 ELSE 100] >>,
     velocity |-> << [j \in 1..nj |-> IF j = 1 THEN -400 ELSE -200],
                     [j \in 1..nj |-> IF j = 1 THEN 400 ELSE 200] >>,
     effort   |-> << [j \in 1..nj |-> IF j = 1 THEN -90 ELSE -50],
                     [j \in 1..nj |-> IF j = 1 THEN 90 ELSE 50] >>]

\* control_dict snapshots for a robot whose fingers are the joints of idx
ControlDicts(idx) ==
    IF Len(idx) = 1
    THEN { [joint_position |-> <<ArmTelemetry[1], p1>>,
            joint_velocity |-> <<ArmTelemetry[2], v1>>,
            joint_effort   |-> <<ArmTelemetry[3], FingerEffort[1]>>]
           : p1 \in PosVals, v1 \in VelVals }
    ELSE { [joint_position |-> <<ArmTelemetry[1], p[1], p[2]>>,
            joint_velocity |-> <<ArmTelemetry[2], v[1], v[2]>>,
            joint_effort   |-> <<ArmTelemetry[3], FingerEffort[1], FingerEffort[2]>>]
           : p \in PosPairs, v \in VelPairs }

\* goal targets of the shape _get_goal_shapes gives: (command_dim,)
GoalTargets(cdim) == [1..cdim -> TargetVals]

\* ------------------------------------------------------------------------
\* compute_control

\* command_dim as one entry per governed joint, whatever the mode
CommandDimPerJoint(md, idx) == Len(idx)

\* command_dim
CommandDim(md, idx) == IF md = "independent" THEN Len(idx) ELSE 1

\* self._control_limits[ControlType.get_type(self._motor_type)][side][self.dof_idx],
\* side 1 the minima and side 2 the maxima
TypeLimit(side) == Take(control_limits[motor_type][side], dof_idx)

\* self._control_limits[ControlType.POSITION][side][self.dof_idx]
PositionLimit(side) == Take(control_limits["position"][side], dof_idx)

\* control_dict["joint_{}".format(self._motor_type)][self.dof_idx]
TypeTelemetry(cd) ==
    Take(CASE motor_type = "position" -> cd.joint_position
           [] motor_type = "velocity" -> cd.joint_velocity
           [] OTHER -> cd.joint_effort, dof_idx)

\* The binary branch as the HEAD side of the merge has it.
BinaryHead(target) ==
    [u |-> IF target[1] >= 0 THEN TypeLimit(2) ELSE TypeLimit(1), alias |-> "fresh"]

\* The binary branch as the multiple-envs side of the merge has it.
BinaryMultipleEnvs(target) ==
    IF target[1] >= 0
    THEN IF open_qpos = None THEN [u |-> TypeLimit(2), alias |-> "fresh"]
                             ELSE [u |-> open_qpos, alias |-> "open_qpos"]
    ELSE IF closed_qpos = None THEN [u |-> TypeLimit(1), alias |-> "fresh"]
                               ELSE [u |-> closed_qpos, alias |-> "closed_qpos"]

\* The ternary branch (HEAD side only).
Ternary(target, cd) ==
    [u |-> IF target[1] > 660 THEN TypeLimit(2)
           ELSE IF target[1] < -660 THEN TypeLimit(1)
           ELSE TypeTelemetry(cd),
     alias |-> "fresh"]

\* The smooth_delta branch (HEAD side only).
SmoothDelta(target, cd) ==
    [u |-> [i \in 1..Len(dof_idx) |-> TypeTelemetry(cd)[i] + target[1]], alias |-> "fresh"]

\* The final else branch: u is the target array itself, not a copy.
Continuous(target) == [u |-> target, alias |-> "target"]

\* The mode dispatch of compute_control.  The file holds both sides of a merge
\* between the conflict markers; mergeSide says which one is built.  alias names
\* the array u is: a fresh one, the goal's target, or self._open_qpos /
\* self._closed_qpos.
SelectControl(target, cd) ==
    IF mergeSide = "HEAD"
    THEN CASE mode = "binary" -> BinaryHead(target)
           [] mode = "ternary" -> Ternary(target, cd)
           [] mode = "smooth_delta" -> SmoothDelta(target, cd)
           [] OTHER -> Continuous(target)
    ELSE CASE mode = "binary" -> BinaryMultipleEnvs(target)
           [] OTHER -> Continuous(target)

\* the motor types whose control is zeroed near the joint limits
ClampedMotorTypes == {"velocity", "torque"}

\* violate_upper_limit and violate_lower_limit, per finger
ViolateUpper(joint_pos) ==
    [i \in 1..Len(joint_pos) |-> joint_pos[i] > PositionLimit(2)[i] - limit_tolerance]

ViolateLower(joint_pos) ==
    [i \in 1..Len(joint_pos) |-> joint_pos[i] < PositionLimit(1)[i] + limit_tolerance]

\* violation = np.logical_or(violate_upper_limit * (u > 0), violate_lower_limit * (u < 0)),
\* of the broadcast shape of joint_pos and u
Violation(u, joint_pos) ==
    [i \in 1..BShape(Len(joint_pos), Len(u)) |->
        \/ At(ViolateUpper(joint_pos), i) /\ At(u, i) > 0
        \/ At(ViolateLower(joint_pos), i) /\ At(u, i) < 0]

\* The limit clamp: u *= ~violation, in place.  numpy raises ValueError when the
\* operands do not broadcast, or broadcast to a shape other than u's.
SafetyClamp(u, joint_pos) ==
    IF motor_type \notin ClampedMotorTypes THEN [err |-> "none", u |-> u]
    ELSE IF BShape(Len(joint_pos), Len(u)) # Len(u) THEN [err |-> "ValueError", u |-> u]
    ELSE [err |-> "none",
          u |-> [i \in 1..Len(u) |-> IF Violation(u, joint_pos)[i] THEN 0 ELSE u[i]]]

\* ------------------------------------------------------------------------
\* _update_grasping_state

\* valid_grasp_pos
ValidGraspPos(finger_pos) ==
    /\ Sum(Sub(finger_pos, PositionLimit(1))) > POS_TOLERANCE * Len(finger_pos)
    /\ Sum(Sub(PositionLimit(2), finger_pos)) > POS_TOLERANCE * Len(finger_pos)

\* valid_grasp_vel without np.abs
ValidGraspVelSigned(finger_vel) == \A i \in 1..Len(finger_vel) : finger_vel[i] < VEL_TOLERANCE

\* valid_grasp_vel
ValidGraspVel(finger_vel) == \A i \in 1..Len(finger_vel) : Abs(finger_vel[i]) < VEL_TOLERANCE

\* the limits assertion without its lower-limit half
FingersBelowUpper(finger_pos) ==
    \A i \in 1..Len(finger_pos) : finger_pos[i] <= PositionLimit(2)[i]

\* the assertion that the fingers are within their position limits
FingersInLimits(finger_pos) ==
    \A i \in 1..Len(finger_pos) :
        PositionLimit(1)[i] <= finger_pos[i] /\ finger_pos[i] <= PositionLimit(2)[i]

\* the no-control case taken for one without heuristics
GraspWithoutControlUnknown == "UNKNOWN"

\* the state assumed while no control has been issued
GraspWithoutControl == "FALSE"

\* the position-motor test with np.sum for np.mean
ReachedControlSum(finger_pos) ==
    /\ motor_type = "position"
    /\ Sum(AbsVec(Sub(finger_pos, control))) < POS_TOLERANCE

\* the position-motor test: the fingers are where the last control sent them
ReachedControl(finger_pos) ==
    /\ motor_type = "position"
    /\ Sum(AbsVec(Sub(finger_pos, control))) < POS_TOLERANCE * Len(Sub(finger_pos, control))

\* the motor types whose grasp state is unknown after a zero control
ZeroControlMotorTypes == {"velocity", "torque"}

\* the velocity / torque test: the last control was (about) zero
ZeroControl ==
    /\ motor_type \in ZeroControlMotorTypes
    /\ Sum(AbsVec(control)) < VEL_TOLERANCE * Len(control)

\* the tolerance assertion passing at equal tolerances too
ToleranceAssertionNonStrict == POS_TOLERANCE >= limit_tolerance

\* the assertion that the grasp heuristics' position tolerance exceeds the
\* controller's limit tolerance
ToleranceAssertion == POS_TOLERANCE > limit_tolerance

\* The grasp update with a grasp, once reported, kept for as long as the fingers
\* stay mid-travel
GraspingStateSticky(cd, cached) ==
    IF mode = "independent" THEN [err |-> "none", is_grasping |-> "UNKNOWN"]
    ELSE IF control = None THEN [err |-> "none", is_grasping |-> GraspWithoutControl]
    ELSE IF ~ToleranceAssertion
         THEN [err |-> "AssertionError: tolerance", is_grasping |-> cached]
    ELSE LET finger_pos == Take(cd.joint_position, dof_idx)
             finger_vel == Take(cd.joint_velocity, dof_idx)
         IN  IF ReachedControl(finger_pos) THEN [err |-> "none", is_grasping |-> "UNKNOWN"]
             ELSE IF ZeroControl THEN [err |-> "none", is_grasping |-> "UNKNOWN"]
             ELSE IF ~FingersInLimits(finger_pos)
                  THEN [err |-> "AssertionError: limits", is_grasping |-> cached]
             ELSE [err |-> "none",
                   is_grasping |-> IF /\ ValidGraspPos(finger_pos)
                                      /\ (ValidGraspVel(finger_vel) \/ cached = "TRUE")
                                   THEN "TRUE" ELSE "FALSE"]

\* The state _update_grasping_state computes from self._control (the control of
\* the previous tick) and this tick's telemetry, in a controller whose cached
\* state is cached; err names the assertion that failed, in which case
\* self._is_grasping keeps its value.
GraspingState(cd, cached) ==
    IF mode = "independent" THEN [err |-> "none", is_grasping |-> "UNKNOWN"]
    ELSE IF control = None THEN [err |-> "none", is_grasping |-> GraspWithoutControl]
    ELSE IF ~ToleranceAssertion
         THEN [err |-> "AssertionError: tolerance", is_grasping |-> cached]
    ELSE LET finger_pos == Take(cd.joint_position, dof_idx)
             finger_vel == Take(cd.joint_velocity, dof_idx)
         IN  IF ReachedControl(finger_pos) THEN [err |-> "none", is_grasping |-> "UNKNOWN"]
             ELSE IF ZeroControl THEN [err |-> "none", is_grasping |-> "UNKNOWN"]
             ELSE IF ~FingersInLimits(finger_pos)
                  THEN [err |-> "AssertionError: limits", is_grasping |-> cached]
             ELSE [err |-> "none",
                   is_grasping |-> IF ValidGraspPos(finger_pos) /\ ValidGraspVel(finger_vel)
                                   THEN "TRUE" ELSE "FALSE"]

\* _update_grasping_state(control_dict) of this controller
UpdateGraspingState(cd) == GraspingState(cd, is_grasping)

\* One compute_control call, from its arguments to what it leaves behind:
\* selected is u as the mode selects it, u the array at the end of the call,
\* updated whether _update_grasping_state was called, outcome "ok" or the
\* exception raised.
ComputeControl(target, cd) ==
    LET joint_pos == Take(cd.joint_position, dof_idx)
        sel == SelectControl(target, cd)
        cl == SafetyClamp(sel.u, joint_pos)
        g == UpdateGraspingState(cd)
        clamped == cl.err = "none"
    IN  [selected |-> sel.u,
         alias |-> sel.alias,
         u |-> cl.u,
         updated |-> clamped,
         outcome |-> IF ~clamped THEN cl.err ELSE IF g.err # "none" THEN g.err ELSE "ok",
         is_grasping |-> IF clamped THEN g.is_grasping ELSE is_grasping]

\* ------------------------------------------------------------------------
\* State machine

NoError == [raised |-> "none", name |-> "", got |-> "", mode |-> "", command_output_limits |-> ""]

NoCall == [outcome |-> "none"]

NoQuery == [op |-> "none"]

NoRobot == [validation |-> "none"]

Init ==
    /\ mergeSide \in MergeSides
    /\ phase = "unbuilt"
    /\ error = NoError
    /\ mode = ""
    /\ motor_type = ""
    /\ limit_tolerance = 0
    /\ open_qpos = None
    /\ closed_qpos = None
    /\ dof_idx = <<>>
    /\ control_limits = <<>>
    /\ is_grasping = "FALSE"
    /\ control = None
    /\ call = NoCall
    /\ inverted = FALSE
    /\ command_input_limits = None
    /\ query = NoQuery
    /\ robot = NoRobot

\* The exception __init__ raises for these arguments, NoError when it returns:
\* which assertion failed (name), on which value (got), and the mode and
\* command_output_limits the call was made with.
\* assert_valid_key(key, valid_keys, name) asserts that key is one of valid_keys.
InitError(md, mt, col) ==
    LET failed(name, got) == [raised |-> "AssertionError", name |-> name, got |-> got,
                              mode |-> md, command_output_limits |-> col]
    IN  IF mt \notin VALID_TYPES_STR THEN failed("motor_type", mt)
        ELSE IF md \notin VALID_MODES THEN failed("mode for multi finger gripper", md)
        ELSE LET command_output_limits == IF md = "binary" \/ md = "ternary" THEN "pair" ELSE col
             IN  IF md = "smooth_delta" /\ command_output_limits = "default"
                 THEN failed("command_output_limits", col)
                 ELSE NoError

\* the input limits the base class keeps: "default" stands for (-1.0, 1.0)
InputLimits(cil) == IF cil = "default" THEN <<-2000, 2000>> ELSE cil

\* MultiFingerGripperController(...): motor_type mt, mode md, command_output_limits
\* col, inverted and command_input_limits pl, limit_tolerance lt, dof_idx idx, and
\* open_qpos / closed_qpos given or None (callers give them in binary mode, the
\* only mode that reads them).
Construct(md, mt, col, pl, lt, idx, withQpos) ==
    /\ phase = "unbuilt"
    /\ robot = NoRobot
    /\ error' = InitError(md, mt, col)
    /\ IF InitError(md, mt, col) # NoError
       THEN /\ phase' = "rejected"
            /\ UNCHANGED <<mode, motor_type, limit_tolerance, open_qpos, closed_qpos,
                           dof_idx, control_limits, is_grasping, control, inverted,
                           command_input_limits>>
       ELSE /\ phase' = "ready"
            /\ motor_type' = mt
            /\ inverted' = pl.inverted
            /\ command_input_limits' = InputLimits(pl.command_input_limits)
            /\ mode' = md
            /\ limit_tolerance' = lt
            /\ open_qpos' = IF withQpos THEN OpenQposArg(Len(idx)) ELSE None
            /\ closed_qpos' = IF withQpos THEN ClosedQposArg(Len(idx)) ELSE None
            /\ is_grasping' = "FALSE"
            /\ control_limits' = ControlLimitsArg(Len(idx) + 1)
            /\ dof_idx' = idx
            /\ control' = None
    /\ UNCHANGED <<mergeSide, call, query, robot>>

\* compute_control(goal_dict, control_dict) of one tick.  The call record keeps
\* the arguments, the arrays the goal's target and the telemetry are after the
\* call, and the grasp state and qpos arrays as they were before it.  The
\* telemetry and the control limits are only read, through copies (indexing by
\* the array dof_idx copies); the target, self._open_qpos and self._closed_qpos
\* are the array u itself where the mode takes u from them, and the clamp
\* multiplies into u in place.  An exception leaves self._is_grasping as it was.
Step(target, cd) ==
    /\ phase = "ready"
    /\ call = NoCall
    /\ query = NoQuery
    /\ \E r \in {ComputeControl(target, cd)} :
           /\ call' = [outcome |-> r.outcome,
                       target |-> target,
                       control_dict |-> cd,
                       selected |-> r.selected,
                       u |-> r.u,
                       updated |-> r.updated,
                       target_after |-> IF r.alias = "target" THEN r.u ELSE target,
                       control_dict_after |-> cd,
                       pre_is_grasping |-> is_grasping,
                       pre_open_qpos |-> open_qpos,
                       pre_closed_qpos |-> closed_qpos]
           /\ is_grasping' = r.is_grasping
           /\ open_qpos' = IF r.alias = "open_qpos" THEN r.u ELSE open_qpos
           /\ closed_qpos' = IF r.alias = "closed_qpos" THEN r.u ELSE closed_qpos
    /\ UNCHANGED <<mergeSide, phase, error, mode, motor_type, limit_tolerance, dof_idx,
                   control_limits, control, inverted, command_input_limits, query, robot>>

\* The end of the tick in the base controller's step: the control compute_control
\* returned becomes the last-issued control; when it raised, nothing is stored.
StoreControl ==
    /\ phase = "ready"
    /\ call # NoCall
    /\ control' = IF call.outcome = "ok" THEN call.u ELSE control
    /\ call' = NoCall
    /\ UNCHANGED <<mergeSide, phase, error, mode, motor_type, limit_tolerance, open_qpos,
                   closed_qpos, dof_idx, control_limits, is_grasping, inverted,
                   command_input_limits, query, robot>>

\* reset() leaving the grasp state as the last update left it
ResetKeepingGrasp(forget) ==
    /\ phase = "ready"
    /\ call = NoCall
    /\ query = NoQuery
    /\ control' = IF forget THEN None ELSE control
    /\ UNCHANGED <<mergeSide, phase, error, mode, motor_type, limit_tolerance, open_qpos,
                   closed_qpos, dof_idx, control_limits, is_grasping, call, inverted,
                   command_input_limits, query, robot>>

\* reset(), between ticks: the base class's reset, then the grasp state back to
\* FALSE.  Whether the base class forgets the last-issued control is not in this
\* file: both are allowed.
Reset(forget) ==
    /\ phase = "ready"
    /\ call = NoCall
    /\ query = NoQuery
    /\ control' = IF forget THEN None ELSE control
    /\ is_grasping' = "FALSE"
    /\ UNCHANGED <<mergeSide, phase, error, mode, motor_type, limit_tolerance, open_qpos,
                   closed_qpos, dof_idx, control_limits, call, inverted,
                   command_input_limits, query, robot>>

\* the fields of the controller, which a query leaves alone
controllerFields == <<mergeSide, phase, error, mode, motor_type, limit_tolerance, open_qpos,
                      closed_qpos, dof_idx, control_limits, is_grasping, control, call,
                      inverted, command_input_limits>>

\* a query can be made of a constructed controller between two ticks
CanQuery == phase = "ready" /\ call = NoCall /\ query = NoQuery

\* is_grasping(): the cached value
IsGrasping ==
    /\ CanQuery
    /\ query' = [op |-> "is_grasping", result |-> is_grasping]
    /\ UNCHANGED <<controllerFields, robot>>

\* the command_dim property
ReadCommandDim ==
    /\ CanQuery
    /\ query' = [op |-> "command_dim", result |-> CommandDim(mode, dof_idx)]
    /\ UNCHANGED <<controllerFields, robot>>

\* compute_no_op_goal(control_dict): a zero target of command_dim entries
ComputeNoOpGoal ==
    /\ CanQuery
    /\ query' = [op |-> "compute_no_op_goal",
                 result |-> [i \in 1..CommandDim(mode, dof_idx) |-> 0]]
    /\ UNCHANGED <<controllerFields, robot>>

\* the command as _preprocess_command makes it command_dim entries long
Replicate(command) ==
    IF mode # "independent"
    THEN [i \in 1..CommandDim(mode, dof_idx) |-> command[1]]
    ELSE command

\* the command negated, which is the reflection only in a range symmetric about zero
FlipSign(command) == [i \in 1..Len(command) |-> -command[i]]

\* the command reflected in the input range
Flip(command) ==
    [i \in 1..Len(command) |->
        command_input_limits[2] - (command[i] - command_input_limits[1])]

\* the command _preprocess_command hands to the base class's _preprocess_command
Preprocessed(command) ==
    IF inverted THEN Flip(Replicate(command)) ELSE Replicate(command)

\* _preprocess_command(command), up to the call of the base class's method, which
\* gets passed_on and whose result is returned as it is
PreprocessCommand(command) ==
    /\ CanQuery
    /\ query' = [op |-> "_preprocess_command", command |-> command,
                 passed_on |-> Preprocessed(command)]
    /\ UNCHANGED <<controllerFields, robot>>

\* the query returns to its caller
Return ==
    /\ query # NoQuery
    /\ query' = NoQuery
    /\ UNCHANGED <<controllerFields, robot>>

Next ==
    \/ \E md \in ModeArgs, mt \in MotorTypeArgs, col \in OutputLimitArgs,
          pl \in PipelineArgs, lt \in LimitToleranceArgs, idx \in DofIdxArgs :
          \E withQpos \in IF md = "binary" THEN BOOLEAN ELSE {FALSE} :
             Construct(md, mt, col, pl, lt, idx, withQpos)
    \/ \E target \in GoalTargets(CommandDim(mode, dof_idx)), cd \in ControlDicts(dof_idx) :
          Step(target, cd)
    \/ StoreControl
    \/ \E forget \in BOOLEAN : Reset(forget)
    \/ IsGrasping
    \/ ReadCommandDim
    \/ ComputeNoOpGoal
    \/ \E command \in CommandArgs : PreprocessCommand(command)
    \/ Return

Spec == Init /\ [][Next]_vars

\* ------------------------------------------------------------------------
\* LocomotionRobot: the validation of its controllers and the slice of the
\* action vector that belongs to its base controller

\* the largest command_dim of a controller
MaxCommandDim == 2

\* the names controllers are registered under
ControllerNames == {"base", "camera", "arm"}

\* a controller: whether it is an instance of LocomotionController, and its command_dim
Controllers == [locomotion : BOOLEAN, command_dim : 1..MaxCommandDim]

\* self._controllers: a dictionary from some of the names to controllers
ControllerDicts == UNION {[names -> Controllers] : names \in SUBSET ControllerNames}

\* the orders in which names can be listed, each once
Orders(names) ==
    {o \in [1..Cardinality(names) -> names] : \A i, j \in 1..Cardinality(names) : o[i] = o[j] => i = j}

\* controller_order: ["base"] as LocomotionRobot has it, or, in a subclass with
\* more controllers, all of them in some order
ControllerOrders(controllers) ==
    {<<"base">>} \cup IF "base" \in DOMAIN controllers THEN Orders(DOMAIN controllers) ELSE {}

\* A robot whose controllers are loaded and whose configuration is to be validated
InitRobot ==
    /\ mergeSide \in MergeSides
    /\ phase = "unbuilt"
    /\ error = NoError
    /\ mode = ""
    /\ motor_type = ""
    /\ limit_tolerance = 0
    /\ open_qpos = None
    /\ closed_qpos = None
    /\ dof_idx = <<>>
    /\ control_limits = None
    /\ is_grasping = "FALSE"
    /\ control = None
    /\ call = NoCall
    /\ inverted = FALSE
    /\ command_input_limits = None
    /\ query = NoQuery
    /\ \E controllers \in ControllerDicts :
          \E order \in ControllerOrders(controllers) :
             robot = [controllers |-> controllers, controller_order |-> order,
                      validation |-> "pending", parent_validated |-> FALSE]

\* the validation without the isinstance assertion
ValidationAnyBase(controllers) ==
    IF "base" \notin DOMAIN controllers THEN "AssertionError: no base" ELSE "ok"

\* what the two assertions of _validate_configuration make of the controllers
Validation(controllers) ==
    IF "base" \notin DOMAIN controllers THEN "AssertionError: no base"
    ELSE IF ~controllers["base"].locomotion THEN "AssertionError: base type"
    ELSE "ok"

\* _validate_configuration(): the two assertions, then the parent's validation
ValidateConfiguration ==
    /\ robot # NoRobot
    /\ robot.validation = "pending"
    /\ robot' = [robot EXCEPT !.validation = Validation(robot.controllers),
                              !.parent_validated = (Validation(robot.controllers) = "ok")]
    /\ UNCHANGED <<controllerFields, query>>

\* 1 + controller_order.index(name)
OrderIndex(order, name) ==
    CHOOSE i \in 1..Len(order) : order[i] = name /\ \A j \in 1..(i - 1) : order[j] # name

\* action_start_idx with the base controller's own command_dim summed in
ActionStartIdxThroughBase(r) ==
    Sum([i \in 1..OrderIndex(r.controller_order, "base") |->
            r.controllers[r.controller_order[i]].command_dim])

\* action_start_idx
ActionStartIdx(r) ==
    Sum([i \in 1..(OrderIndex(r.controller_order, "base") - 1) |->
            r.controllers[r.controller_order[i]].command_dim])

\* np.arange(start, stop)
Arange(start, stop) == [i \in 1..(stop - start) |-> start + i - 1]

\* the base_action_idx property of a robot whose configuration is valid
ReadBaseActionIdx ==
    /\ robot # NoRobot
    /\ robot.validation = "ok"
    /\ query = NoQuery
    /\ query' = [op |-> "base_action_idx",
                 result |-> Arange(ActionStartIdx(robot),
                                   ActionStartIdx(robot) + robot.controllers["base"].command_dim)]
    /\ UNCHANGED <<controllerFields, robot>>

NextRobot ==
    \/ ValidateConfiguration
    \/ ReadBaseActionIdx
    \/ Return

SpecRobot == InitRobot /\ [][NextRobot]_vars

\* ------------------------------------------------------------------------
\* Properties

\* a compute_control call has been made in this tick
Called == call # NoCall

\* that call returned a control
Returned == Called /\ call.outcome = "ok"

\* that call reached _update_grasping_state
GraspUpdated == Called /\ call.updated

\* the finger positions and velocities that call was given
CalledFingerPos == Take(call.control_dict.joint_position, dof_idx)
CalledFingerVel == Take(call.control_dict.joint_velocity, dof_idx)

\* finger i is within limit_tolerance of its upper / lower position limit
NearUpper(i) == At(CalledFingerPos, i) > At(PositionLimit(2), i) - limit_tolerance
NearLower(i) == At(CalledFingerPos, i) < At(PositionLimit(1), i) + limit_tolerance

\* C1 (as claimed): with a velocity or effort motor, every component of the
\* returned control that points outward at a joint within limit_tolerance of the
\* limit on that side is zero, and every other component is as the mode selected it.
C1_ClampVelocityAndEffort ==
    (Returned /\ motor_type \in {"velocity", "effort"}) =>
        \A i \in 1..Len(call.u) :
            call.u[i] = IF \/ NearUpper(i) /\ call.selected[i] > 0
                           \/ NearLower(i) /\ call.selected[i] < 0
                        THEN 0 ELSE call.selected[i]

\* the mode a caller asked for, once the constructor has run
ModeRejected(md) ==
    phase = "rejected" /\ error.name = "mode for multi finger gripper" /\ error.got = md

\* C2 (as claimed): no documented mode is rejected for its mode string, and no
\* controller is created with a mode outside the five documented ones.
C2_ModeValidation ==
    /\ \A md \in DocumentedModes : ~ModeRejected(md)
    /\ phase = "ready" => mode \in DocumentedModes

\* C3 (as claimed): in binary mode the selected control is open_qpos (when given,
\* else the upper limit of the control type) for target[0] >= 0, and closed_qpos
\* (when given, else the lower limit) for target[0] < 0.
C3_Binary ==
    (Called /\ mode = "binary") =>
        call.selected =
            IF call.target[1] >= 0
            THEN IF call.pre_open_qpos # None THEN OpenQposArg(Len(dof_idx)) ELSE TypeLimit(2)
            ELSE IF call.pre_closed_qpos # None THEN ClosedQposArg(Len(dof_idx)) ELSE TypeLimit(1)

\* C4 (as claimed): in ternary mode the selected control is the upper limit for
\* target[0] > 0.33, the lower limit for target[0] < -0.33, and the telemetry of
\* the controller's own control type otherwise.
C4_Ternary ==
    (Called /\ mode = "ternary") =>
        call.selected =
            IF call.target[1] > 660 THEN TypeLimit(2)
            ELSE IF call.target[1] < -660 THEN TypeLimit(1)
            ELSE TypeTelemetry(call.control_dict)

\* C5 (as claimed): the control compute_control returns has one entry per
\* governed joint.
C5_ControlLength == Returned => Len(call.u) = Len(dof_idx)

\* the grasp update of this tick ran in a mode other than independent with a
\* control issued before it (control is still that earlier control: the base
\* class stores this tick's only afterwards)
HeuristicUpdate == GraspUpdated /\ mode # "independent" /\ control # None

\* mean(|a|) < tol, and mean(a) > tol
MeanAbsBelow(a, tol) == Sum(AbsVec(a)) < tol * Len(a)
MeanAbove(a, tol) == Sum(a) > tol * Len(a)

\* the two Unknown conditions as the specification words them
SpecReachedCommand ==
    motor_type = "position" /\ MeanAbsBelow(Sub(CalledFingerPos, control), POS_TOLERANCE)
SpecNoActuation ==
    motor_type \in {"velocity", "effort"} /\ MeanAbsBelow(control, VEL_TOLERANCE)

\* every finger position the call was given is within its position limits
CalledInLimits ==
    \A i \in 1..Len(dof_idx) :
        /\ control_limits.position[1][dof_idx[i]] <= CalledFingerPos[i]
        /\ CalledFingerPos[i] <= control_limits.position[2][dof_idx[i]]

\* fingers stalled away from both ends of travel
StalledMidTravel ==
    /\ MeanAbove(Sub(CalledFingerPos, PositionLimit(1)), POS_TOLERANCE)
    /\ MeanAbove(Sub(PositionLimit(2), CalledFingerPos), POS_TOLERANCE)
    /\ \A i \in 1..Len(dof_idx) :
          CalledFingerVel[i] < VEL_TOLERANCE /\ -CalledFingerVel[i] < VEL_TOLERANCE

MovingCase == HeuristicUpdate /\ ~SpecReachedCommand /\ ~SpecNoActuation /\ CalledInLimits

\* C6 (as claimed): in the moving case the grasp state becomes TRUE exactly when
\* the fingers are stalled mid-travel, and FALSE otherwise.
C6_MovingAsClaimed ==
    MovingCase => is_grasping = IF StalledMidTravel THEN "TRUE" ELSE "FALSE"

\* C6 (amended): the same, for a controller whose limit_tolerance is below
\* POS_TOLERANCE; the update then completes without an assertion.
C6_Moving ==
    (MovingCase /\ limit_tolerance < POS_TOLERANCE) =>
        /\ call.outcome = "ok"
        /\ is_grasping = IF StalledMidTravel THEN "TRUE" ELSE "FALSE"

\* C6 witness: a velocity controller whose last control was well above zero finds
\* its fingers stalled mid-travel and reports a grasp it did not report before.
C6_Witness ==
    /\ MovingCase /\ limit_tolerance < POS_TOLERANCE
    /\ motor_type = "velocity" /\ Len(dof_idx) = 2
    /\ StalledMidTravel
    /\ call.pre_is_grasping = "FALSE" /\ is_grasping = "TRUE"

\* C7 (as claimed, taken where the tolerance assertion passes): with a velocity
\* or an effort motor, a last-issued control of mean magnitude below
\* VEL_TOLERANCE makes the grasp state UNKNOWN.
C7_ZeroControlUnknown ==
    (HeuristicUpdate /\ limit_tolerance < POS_TOLERANCE /\ SpecNoActuation) =>
        is_grasping = "UNKNOWN"

\* C8 (as claimed): with a position motor, finger positions within POS_TOLERANCE
\* (in the mean) of the last-issued control make the grasp state UNKNOWN.
C8_ReachedAsClaimed ==
    (HeuristicUpdate /\ SpecReachedCommand) => is_grasping = "UNKNOWN"

\* C8 (amended): the same, for a controller whose limit_tolerance is below
\* POS_TOLERANCE; the update then completes without an assertion, also with a
\* finger outside its limits.
C8_Reached ==
    (HeuristicUpdate /\ SpecReachedCommand /\ limit_tolerance < POS_TOLERANCE) =>
        call.outcome = "ok" /\ is_grasping = "UNKNOWN"

\* C8 witness: a position controller reads a finger below its lower limit but
\* within POS_TOLERANCE of the last control, and goes from FALSE to UNKNOWN.
C8_Witness ==
    /\ HeuristicUpdate /\ SpecReachedCommand /\ limit_tolerance < POS_TOLERANCE
    /\ ~CalledInLimits
    /\ call.pre_is_grasping = "FALSE" /\ is_grasping = "UNKNOWN"

\* C9 (as claimed): a controller asked for in independent mode is there, and
\* after each of its compute_control calls its grasp state is UNKNOWN.
C9_IndependentUnknown ==
    /\ ~ModeRejected("independent")
    /\ (GraspUpdated /\ mode = "independent") => is_grasping = "UNKNOWN"

\* C10: outside independent mode, a grasp update made while no control has been
\* issued sets the state to FALSE and raises nothing, whatever the telemetry and
\* the limit tolerance.
C10_NoControlFalse ==
    (GraspUpdated /\ mode # "independent" /\ control = None) =>
        call.outcome = "ok" /\ is_grasping = "FALSE"

\* C10 witness: such an update with a finger outside its limits and a
\* limit_tolerance that fails the tolerance assertion once a control exists.
C10_Witness ==
    /\ GraspUpdated /\ mode # "independent" /\ control = None
    /\ ~CalledInLimits /\ limit_tolerance >= POS_TOLERANCE
    /\ is_grasping = "FALSE"

\* this tick's call raised an assertion
AssertionRaised ==
    call.outcome \in {"AssertionError: tolerance", "AssertionError: limits"}

C12_SmoothDeltaOutputLimits ==
    (phase = "rejected" /\ error.mode = "smooth_delta" /\ error.name # "motor_type") =>
        error.name = "command_output_limits" /\ error.command_output_limits = "default"

IsComputeControl == call = NoCall /\ call' # NoCall

\* this step is a reset
IsReset == phase = "ready" /\ call = NoCall /\ call' = NoCall /\ query = NoQuery /\ query' = NoQuery

\* C14 (as claimed): the cached grasp state changes only in a compute_control
\* call; reset, _preprocess_command, compute_no_op_goal and is_grasping leave it.
C14_AsClaimed ==
    [][(is_grasping' # is_grasping) => IsComputeControl]_vars

\* C14 (amended): the cached grasp state changes only in a compute_control call
\* and in reset, which sets it to FALSE; every reset leaves it FALSE, and
\* _preprocess_command, compute_no_op_goal, is_grasping and command_dim leave it
\* as it is.
C14_GraspStateFrame ==
    [][/\ (is_grasping' # is_grasping) => (IsComputeControl \/ IsReset)
       /\ IsReset => is_grasping' = "FALSE"
       /\ (query' # query) => is_grasping' = is_grasping]_vars

\* C14 witness: between two ticks is_grasping() reads the TRUE an earlier
\* compute_control call left.
C14_Witness ==
    /\ query.op = "is_grasping" /\ query.result = "TRUE"
    /\ call = NoCall /\ control # None

\* C15: a compute_control call made in a mode other than independent, after a
\* control has been issued, by a controller whose limit_tolerance is at least
\* POS_TOLERANCE fails with the tolerance assertion and classifies nothing: the
\* cached grasp state stays what it was.
C15_ToleranceAssertion ==
    (Called /\ mode # "independent" /\ control # None /\ limit_tolerance >= POS_TOLERANCE) =>
        /\ call.outcome = "AssertionError: tolerance"
        /\ is_grasping = call.pre_is_grasping

\* C15 witness: such an update with the fingers stalled mid-travel, in their
\* limits and away from a non-zero last control, which the heuristics would
\* classify TRUE; the state stays FALSE.
C15_Witness ==
    /\ MovingCase /\ StalledMidTravel
    /\ limit_tolerance = POS_TOLERANCE
    /\ call.outcome = "AssertionError: tolerance"
    /\ call.pre_is_grasping = "FALSE" /\ is_grasping = "FALSE"

\* C16 (as claimed): a controller asked for in smooth_delta mode is there, and
\* the control its compute_control selects is, for every governed joint, the
\* telemetry of the controller's own control type plus target[0].
C16_SmoothDelta ==
    /\ ~ModeRejected("smooth_delta")
    /\ (Called /\ mode = "smooth_delta") =>
            call.selected = [i \in 1..Len(dof_idx) |->
                                TypeTelemetry(call.control_dict)[i] + call.target[1]]

\* C17: with inverted set, every component c of the command (as replicated to
\* command_dim entries) is handed to the generic normalization as
\* input_max - (c - input_min), so that inverting what was handed on gives the
\* command back and a component at the midpoint of the input range stays where
\* it is; with inverted not set the command is handed on as it is.
C17_Inversion ==
    query.op = "_preprocess_command" =>
        LET c == Replicate(query.command)
            input_min == command_input_limits[1]
            input_max == command_input_limits[2]
        IN  /\ Len(query.passed_on) = Len(c)
            /\ \A i \in 1..Len(c) :
                  query.passed_on[i] = IF inverted THEN input_max - (c[i] - input_min) ELSE c[i]
            /\ inverted => Flip(query.passed_on) = c
            /\ inverted => \A i \in 1..Len(c) :
                              2 * c[i] = input_min + input_max => query.passed_on[i] = c[i]

\* C17 witness: an inverted gripper commanded in (0.0, 1.0) is given 0.25 and
\* hands on 0.75.
C17_Witness ==
    /\ query.op = "_preprocess_command"
    /\ inverted /\ command_input_limits = <<0, 2000>>
    /\ query.command = <<500>> /\ query.passed_on = <<1500>>

\* the robot has a controller named "base" and it is a LocomotionController
HasLocomotionBase ==
    \E name \in DOMAIN robot.controllers :
        name = "base" /\ robot.controllers[name].locomotion

\* C18: a validation that has run has failed with an assertion, without running
\* the parent's validation, when there is no controller named "base" or that
\* controller is no LocomotionController; otherwise it has passed both
\* assertions and gone on to the parent's validation.
C18_ValidateConfiguration ==
    (robot # NoRobot /\ robot.validation # "pending") =>
        IF HasLocomotionBase
        THEN robot.validation = "ok" /\ robot.parent_validated
        ELSE /\ robot.validation \in {"AssertionError: no base", "AssertionError: base type"}
             /\ ~robot.parent_validated

\* C18 witness: a robot whose "base" controller is no LocomotionController has
\* been rejected before the parent's validation.
C18_Witness ==
    /\ robot # NoRobot
    /\ robot.validation = "AssertionError: base type"
    /\ "base" \in DOMAIN robot.controllers /\ ~robot.controllers["base"].locomotion
    /\ ~robot.parent_validated

\* the controllers listed before "base" in controller_order
BeforeBase ==
    {name \in DOMAIN robot.controllers :
        \E i, j \in 1..Len(robot.controller_order) :
            i < j /\ robot.controller_order[i] = name /\ robot.controller_order[j] = "base"}

\* the command_dim of the controllers in names, added up
RECURSIVE CommandDimSum(_)
CommandDimSum(names) ==
    IF names = {} THEN 0
    ELSE LET name == CHOOSE n \in names : TRUE
         IN  robot.controllers[name].command_dim + CommandDimSum(names \ {name})

\* C19: base_action_idx has as many entries as the base controller's command_dim,
\* starts at the sum of the command_dim of the controllers listed before "base"
\* in controller_order and goes up by one from entry to entry; under the order
\* ["base"] it starts at 0.
C19_BaseActionIdx ==
    query.op = "base_action_idx" =>
        /\ Len(query.result) = robot.controllers["base"].command_dim
        /\ query.result[1] = CommandDimSum(BeforeBase)
        /\ \A i \in 2..Len(query.result) : query.result[i] = query.result[i - 1] + 1
        /\ robot.controller_order = <<"base">> => query.result[1] = 0

\* C19 witness: "base", with two commands, is listed third, after controllers
\* with three commands between them, and owns the entries 3 and 4.
C19_Witness ==
    /\ query.op = "base_action_idx"
    /\ Len(robot.controller_order) = 3 /\ robot.controller_order[3] = "base"
    /\ query.result = <<3, 4>>

\* the values of IsGraspingState
GraspStates == {"TRUE", "FALSE", "UNKNOWN"}

C21_InputsUnchanged ==
    [][IsComputeControl =>
          /\ call'.target_after = call'.target
          /\ call'.control_dict_after = call'.control_dict
          /\ control_limits' = control_limits]_vars

====
